---- MODULE Spec2Model ----
(***************************************************************************)
(* pocut: the countdown/phase state machine of widgets/pomodoro_clock.py   *)
(* (TimeDisplay, PomodoroClock) over the shared AppState of state.py, and  *)
(* the recurrence engine of utils/taskmanager.py (TaskManager).            *)
(*                                                                         *)
(* Three specifications share the module:                                  *)
(*   Spec      the timer and phase controller driven by the event loop     *)
(*   SpecStore the task store with add_task and process_repeated_tasks     *)
(*   SpecDue   _calculate_next_due_date applied to bounded inputs          *)
(***************************************************************************)
EXTENDS Integers, Sequences, FiniteSets, TLC

VARIABLES
    td,             \* TimeDisplay: duration, remaining_time, timer_active, paused, update_timer
    is_work_phase,  \* AppState.is_work_phase
    work_duration,  \* AppState.config["durations"]["work_duration"]
    break_duration, \* AppState.config["durations"]["break_duration"]
    pc,             \* where the event loop is: "idle", or "playing" inside play_sound_blocking
    last_op,        \* history: the operation that produced this state
    pre,            \* history: td as it was before that operation
    run_d,          \* history: d of the last start(d) while only ticks followed it, else 0
    run_ticks,      \* history: ticks delivered since that start(d)
    signals,        \* history: time-up callbacks since the last start or reset
    tasks,          \* the rows of table tasks, in id order (id = index)
    now,            \* the wall clock read by datetime.now()
    base,           \* history: the store as it was when the current series of sweeps began
    sweeps,         \* history: sweeps completed since the store was last modified otherwise
    store_op,       \* history: the store operation that produced this state
    prev_tasks,     \* history: the store as it was before that operation
    call,           \* SpecDue: the arguments of the call under test
    ret             \* SpecDue: <<>> before the call, <<result>> after it

timerVars == <<td, is_work_phase, work_duration, break_duration, pc,
               last_op, pre, run_d, run_ticks, signals>>
storeVars == <<tasks, now, base, sweeps, store_op, prev_tasks>>
dueVars   == <<call, ret>>
vars      == <<td, is_work_phase, work_duration, break_duration, pc,
               last_op, pre, run_d, run_ticks, signals,
               tasks, now, base, sweeps, store_op, prev_tasks, call, ret>>

\* Python's None, and Some(x) for a value that is present.
None    == <<>>
Some(x) == <<x>>

(***************************************************************************)
(* Bounds                                                                  *)
(***************************************************************************)
\* the largest duration (seconds) the configuration, start(d) and
\* action_set_durations are tried with
MaxDur == 3

\* durations the configuration file supplies (positive, spec section 6)
ConfigDurations == 1..MaxDur
\* arguments tried for start(duration) and action_set_durations(work, break_)
DurationArgs == (0 - 1)..MaxDur

(***************************************************************************)
(* TimeDisplay                                                             *)
(***************************************************************************)
\* the widget as constructed and mounted: reactive defaults, interval paused
TimeDisplayInit ==
    [duration |-> 0, remaining_time |-> 0, timer_active |-> FALSE,
     paused |-> FALSE, update_timer |-> "paused"]

\* stop that clears the flags but forgets update_timer.pause()
stop_interval_left_running(t) ==
    [t EXCEPT !.timer_active = FALSE, !.paused = TRUE]

\* TimeDisplay.stop
stop(t) ==
    [t EXCEPT !.update_timer = "paused", !.timer_active = FALSE, !.paused = TRUE]

\* start that reloads the full duration when none is given, instead of resuming
start_always_reloads(t, duration) ==
    LET d == IF duration # None THEN duration[1] ELSE t.duration
    IN  [t EXCEPT !.duration = d, !.remaining_time = d, !.timer_active = TRUE,
                  !.paused = FALSE, !.update_timer = "running"]

\* start that forgets paused = False
start_keeps_paused(t, duration) ==
    LET t1 == IF duration # None
              THEN [t EXCEPT !.duration = duration[1], !.remaining_time = duration[1]]
              ELSE t
    IN  [t1 EXCEPT !.timer_active = TRUE, !.update_timer = "running"]

\* TimeDisplay.start(duration=None)
start(t, duration) ==
    LET t1 == IF duration # None
              THEN [t EXCEPT !.duration = duration[1], !.remaining_time = duration[1]]
              ELSE t
    IN  [t1 EXCEPT !.timer_active = TRUE, !.paused = FALSE, !.update_timer = "running"]

\* reset that stops the countdown but forgets remaining_time = duration
reset_keeps_remaining(t) ==
    [stop(t) EXCEPT !.paused = FALSE]

\* TimeDisplay.reset
reset(t) ==
    LET t1 == stop(t)
    IN  [t1 EXCEPT !.remaining_time = t1.duration, !.paused = FALSE]

\* TimeDisplay.update_time: the new widget state, and whether the time-up
\* callback is called
update_time(t) ==
    IF t.remaining_time > 0
    THEN [td |-> [t EXCEPT !.remaining_time = t.remaining_time - 1], time_up |-> FALSE]
    ELSE [td |-> stop(t), time_up |-> TRUE]

(***************************************************************************)
(* AppState and PomodoroClock                                              *)
(***************************************************************************)
\* AppState.toggle_phase
toggle_phase(work) == ~work

\* update_timer_for_current_phase that loads the duration without reset()
update_timer_without_reset(t, work, wd, bd) ==
    LET duration == IF work THEN wd ELSE bd
    IN  [t EXCEPT !.duration = duration, !.remaining_time = duration]

\* update_timer_for_current_phase that reads the duration of the other phase
update_timer_for_other_phase(t, work, wd, bd) ==
    LET duration == IF work THEN bd ELSE wd
        t1 == reset(t)
    IN  [t1 EXCEPT !.duration = duration, !.remaining_time = duration]

\* PomodoroClock.update_timer_for_current_phase
update_timer_for_current_phase(t, work, wd, bd) ==
    LET duration == IF work THEN wd ELSE bd
        t1 == reset(t)
    IN  [t1 EXCEPT !.duration = duration, !.remaining_time = duration]

\* history bookkeeping shared by the operations that are neither start(d) nor a tick
Op(name) ==
    /\ last_op' = name
    /\ pre' = td
    /\ run_d' = 0
    /\ run_ticks' = 0

Idle == pc = "idle"

\* TimeDisplay.start(duration) with a duration
TdStartDuration(d) ==
    /\ Idle
    /\ td' = start(td, Some(d))
    /\ last_op' = "start_d"
    /\ pre' = td
    /\ run_d' = IF d > 0 THEN d ELSE 0
    /\ run_ticks' = 0
    /\ signals' = 0
    /\ UNCHANGED <<is_work_phase, work_duration, break_duration, pc>>

\* TimeDisplay.stop called on its own
TdStop ==
    /\ Idle
    /\ td' = stop(td)
    /\ Op("stop")
    /\ UNCHANGED <<is_work_phase, work_duration, break_duration, pc, signals>>

\* TimeDisplay.reset called on its own
TdReset ==
    /\ Idle
    /\ td' = reset(td)
    /\ Op("reset")
    /\ signals' = 0
    /\ UNCHANGED <<is_work_phase, work_duration, break_duration, pc>>

\* PomodoroClock.on_button_pressed, button start_stop
PressStartStop ==
    /\ Idle
    /\ IF td.timer_active
       THEN /\ td' = stop(td)
            /\ Op("stop")
            /\ UNCHANGED signals
       ELSE /\ td' = start(td, None)
            /\ Op("start")
            /\ signals' = 0
    /\ UNCHANGED <<is_work_phase, work_duration, break_duration, pc>>

\* PomodoroClock.on_button_pressed, button reset
PressReset ==
    /\ Idle
    /\ td' = update_timer_for_current_phase(reset(td), is_work_phase,
                                            work_duration, break_duration)
    /\ Op("reset_button")
    /\ signals' = 0
    /\ UNCHANGED <<is_work_phase, work_duration, break_duration, pc>>

\* PomodoroClock.on_button_pressed, button toggle_phase
PressTogglePhase ==
    /\ Idle
    /\ is_work_phase' = toggle_phase(is_work_phase)
    /\ td' = update_timer_for_current_phase(td, is_work_phase',
                                            work_duration, break_duration)
    /\ Op("toggle_phase")
    /\ UNCHANGED <<work_duration, break_duration, pc, signals>>

\* The interval timer fires update_time (only while it is not paused). At zero
\* the callback on_time_up runs: play_sound_blocking either raises out of
\* load/play (audio_ok = FALSE: the exception leaves on_time_up and update_time,
\* nothing after line 174 runs) or starts playing and blocks the event loop.
Tick(audio_ok) ==
    /\ Idle
    /\ td.update_timer = "running"
    /\ LET r == update_time(td)
       IN  /\ td' = r.td
           /\ pre' = td
           /\ run_d' = run_d
           /\ run_ticks' = IF run_d > 0 THEN run_ticks + 1 ELSE 0
           /\ IF r.time_up
              THEN /\ signals' = signals + 1
                   /\ pc' = IF audio_ok THEN "playing" ELSE "idle"
                   /\ last_op' = IF audio_ok THEN "time_up" ELSE "time_up_audio_error"
              ELSE /\ audio_ok
                   /\ signals' = signals
                   /\ pc' = pc
                   /\ last_op' = "tick"
    /\ UNCHANGED <<is_work_phase, work_duration, break_duration>>

\* play_sound_blocking returns (get_busy is false) and on_time_up goes on:
\* toggle_phase, update_timer_for_current_phase
AudioDone ==
    /\ pc = "playing"
    /\ pc' = "idle"
    /\ is_work_phase' = toggle_phase(is_work_phase)
    /\ td' = update_timer_for_current_phase(td, is_work_phase',
                                            work_duration, break_duration)
    /\ last_op' = "phase_switched"
    /\ pre' = td
    /\ UNCHANGED <<work_duration, break_duration, run_d, run_ticks, signals>>

\* action_set_durations that also reloads the timer with the new duration
action_set_durations_reloads(work, break_) ==
    /\ Idle
    /\ work_duration' = work
    /\ break_duration' = break_
    /\ td' = update_timer_for_current_phase(td, is_work_phase, work, break_)
    /\ Op("set_durations")
    /\ UNCHANGED <<is_work_phase, pc, signals>>

\* PocutApp.action_set_durations(work, break_), through the AppState setters
action_set_durations(work, break_) ==
    /\ Idle
    /\ work_duration' = work
    /\ break_duration' = break_
    /\ Op("set_durations")
    /\ UNCHANGED <<td, is_work_phase, pc, signals>>

(***************************************************************************)
(* SettingsTab                                                             *)
(***************************************************************************)
\* the texts tried in the two duration inputs (minutes), as character sequences
SettingsInputs ==
    { <<>>, <<"x">>, <<"-", "1">>, <<"0">>, <<"1">> }

\* seconds per minute: validate_and_save converts the minutes typed to seconds
SecondsPerMinute == 60

DigitChars == {"0", "1", "2", "3", "4", "5", "6", "7", "8", "9"}

DigitValue(c) ==
    CASE c = "0" -> 0 [] c = "1" -> 1 [] c = "2" -> 2 [] c = "3" -> 3 [] c = "4" -> 4
      [] c = "5" -> 5 [] c = "6" -> 6 [] c = "7" -> 7 [] c = "8" -> 8 [] c = "9" -> 9

RECURSIVE DigitsValue(_)
DigitsValue(s) ==
    IF s = <<>> THEN 0
    ELSE 10 * DigitsValue(SubSeq(s, 1, Len(s) - 1)) + DigitValue(s[Len(s)])

\* Python's int(text) on these texts: Some(n), or None for ValueError
int(s) ==
    LET signed == s # <<>> /\ s[1] \in {"-", "+"}
        digits == IF signed THEN Tail(s) ELSE s
    IN  IF digits = <<>> \/ \E i \in 1..Len(digits) : digits[i] \notin DigitChars
        THEN None
        ELSE Some(IF signed /\ s[1] = "-" THEN 0 - DigitsValue(digits)
                  ELSE DigitsValue(digits))

\* SettingsTab.validate_and_save: the durations stored, given the two texts
validate_and_save(work_duration_input, break_duration_input, wd, bd) ==
    LET w == int(work_duration_input)
        b == int(break_duration_input)
    IN  IF w = None \/ b = None
        THEN [work |-> wd, brk |-> bd]
        ELSE [work |-> IF w[1] * SecondsPerMinute > 0 THEN w[1] * SecondsPerMinute ELSE wd,
              brk  |-> IF b[1] * SecondsPerMinute > 0 THEN b[1] * SecondsPerMinute ELSE bd]

\* the Save button of the settings tab
SaveSettings(work_duration_input, break_duration_input) ==
    /\ Idle
    /\ LET r == validate_and_save(work_duration_input, break_duration_input,
                                  work_duration, break_duration)
       IN  /\ work_duration' = r.work
           /\ break_duration' = r.brk
    /\ Op("save_settings")
    /\ UNCHANGED <<td, is_work_phase, pc, signals>>

(***************************************************************************)
(* Dates                                                                   *)
(* A datetime is [day, tod]: the day number (day 0 is a Monday) and the    *)
(* time of day in units after midnight.                                    *)
(***************************************************************************)
\* the last day and the last time of day the clock and the due dates are tried with
MaxDay == 7
MaxTod == 1

DateTimes == [day : 0..MaxDay, tod : 0..MaxTod]

WeekdayNames ==
    <<"Monday", "Tuesday", "Wednesday", "Thursday", "Friday", "Saturday", "Sunday">>

Range(f) == {f[i] : i \in DOMAIN f}

\* datetime + timedelta(days=n)
timedelta_days(dt, n) == [dt EXCEPT !.day = dt.day + n]

\* datetime.strftime("%A")
strftime_A(dt) == WeekdayNames[(dt.day % 7) + 1]

\* datetime.strftime("%Y-%m-%d"): the date, the time of day is dropped
strftime_date(dt) == dt.day

\* datetime.strptime(text, "%Y-%m-%d"): midnight of that date
strptime_date(d) == [day |-> d, tod |-> 0]

\* datetime a > datetime b
Later(a, b) == a.day > b.day \/ (a.day = b.day /\ a.tod > b.tod)

(***************************************************************************)
(* TaskManager: the recurrence engine                                      *)
(***************************************************************************)
\* timedelta(days=30), timedelta(days=365), range(7)
MonthlyDays == 30
YearlyDays == 365
WeekScanDays == 7

\* the loop of _get_next_weekly_date, from candidate i on
RECURSIVE weekly_scan(_, _, _)
weekly_scan(today, days_of_week, i) ==
    IF i >= WeekScanDays THEN None
    ELSE LET next_date == timedelta_days(today, i)
         IN  IF strftime_A(next_date) \in Range(days_of_week)
             THEN Some(next_date)
             ELSE weekly_scan(today, days_of_week, i + 1)

\* _get_next_weekly_date that always scans from now, whatever the due date
get_next_weekly_date_from_now(due_date, days_of_week, now_) ==
    IF days_of_week = <<>> THEN None ELSE weekly_scan(now_, days_of_week, 0)

\* TaskManager._get_next_weekly_date; now_ is what datetime.now() returns
get_next_weekly_date(due_date, days_of_week, now_) ==
    IF days_of_week = <<>> THEN None
    ELSE LET today == IF due_date # None /\ Later(due_date[1], now_)
                      THEN due_date[1] ELSE now_
         IN  weekly_scan(today, days_of_week, 0)

\* _calculate_next_due_date whose day step counts from now when the task is daily
calculate_next_due_date_daily_from_now(due_date, task, now_) ==
    IF task.is_daily THEN Some(timedelta_days(now_, 1))
    ELSE IF task.is_weekly
    THEN get_next_weekly_date(due_date, task.days_of_week, now_)
    ELSE IF task.is_monthly
    THEN Some(IF due_date # None THEN timedelta_days(due_date[1], MonthlyDays)
              ELSE timedelta_days(now_, MonthlyDays))
    ELSE IF task.is_yearly
    THEN Some(IF due_date # None THEN timedelta_days(due_date[1], YearlyDays)
              ELSE timedelta_days(now_, YearlyDays))
    ELSE None

\* _calculate_next_due_date that counts from now even when a due date is present
calculate_next_due_date_from_now(due_date, task, now_) ==
    IF task.is_daily THEN Some(timedelta_days(now_, 1))
    ELSE IF task.is_weekly THEN get_next_weekly_date(due_date, task.days_of_week, now_)
    ELSE IF task.is_monthly THEN Some(timedelta_days(now_, MonthlyDays))
    ELSE IF task.is_yearly THEN Some(timedelta_days(now_, YearlyDays))
    ELSE None

\* TaskManager._calculate_next_due_date; now_ is what datetime.now() returns
calculate_next_due_date(due_date, task, now_) ==
    IF task.is_daily
    THEN Some(IF due_date # None THEN timedelta_days(due_date[1], 1)
              ELSE timedelta_days(now_, 1))
    ELSE IF task.is_weekly
    THEN get_next_weekly_date(due_date, task.days_of_week, now_)
    ELSE IF task.is_monthly
    THEN Some(IF due_date # None THEN timedelta_days(due_date[1], MonthlyDays)
              ELSE timedelta_days(now_, MonthlyDays))
    ELSE IF task.is_yearly
    THEN Some(IF due_date # None THEN timedelta_days(due_date[1], YearlyDays)
              ELSE timedelta_days(now_, YearlyDays))
    ELSE None

(***************************************************************************)
(* TaskManager: the task store                                             *)
(***************************************************************************)
\* the store holds at most MaxTasks rows; callers add tasks of their own only
\* while it holds fewer than MaxAdds; at most MaxSweeps sweeps are run in a row
MaxTasks == 4
MaxAdds == 2
MaxSweeps == 2
\* the last day the clock of the store reaches
MaxClockDay == 1

\* Task(...): the dataclass with its defaults (attempts, time_spent, id) and
\* created_at = updated_at = datetime.now()
Task(title, text, completed, priority, category_id, due_date, recurrence, now_) ==
    [id |-> None, title |-> title, text |-> text, completed |-> completed,
     priority |-> priority, category_id |-> category_id, attempts |-> 0,
     time_spent |-> 0, due_date |-> due_date,
     is_daily |-> recurrence.is_daily, is_weekly |-> recurrence.is_weekly,
     is_monthly |-> recurrence.is_monthly, is_yearly |-> recurrence.is_yearly,
     days_of_week |-> recurrence.days_of_week,
     created_at |-> now_, updated_at |-> now_]

\* an INSERT that leaves the due_date column out
add_task_without_due_date(store, task) ==
    Append(store,
           [task EXCEPT
               !.id = Len(store) + 1,
               !.due_date = None,
               !.days_of_week = IF task.days_of_week # <<>>
                                THEN Some(task.days_of_week) ELSE None])

\* TaskManager.add_task: the row inserted for a task, under the next rowid.
\* The due date is written as a date, the day list joined (NULL when empty).
add_task(store, task) ==
    Append(store,
           [task EXCEPT
               !.id = Len(store) + 1,
               !.due_date = IF task.due_date # None
                            THEN Some(strftime_date(task.due_date[1])) ELSE None,
               !.days_of_week = IF task.days_of_week # <<>>
                                THEN Some(task.days_of_week) ELSE None])

\* TaskManager._row_to_task
row_to_task(row) ==
    [row EXCEPT
        !.id = Some(row.id),
        !.due_date = IF row.due_date # None
                     THEN Some(strptime_date(row.due_date[1])) ELSE None,
        !.days_of_week = IF row.days_of_week # None THEN row.days_of_week[1] ELSE <<>>]

\* a SELECT that asks for all four flags at once (AND for OR)
select_repeated_all_flags(store) ==
    SelectSeq(store, LAMBDA r : /\ ~r.completed
                                /\ r.is_daily /\ r.is_weekly /\ r.is_monthly /\ r.is_yearly)

\* a SELECT without the completed = 0 condition
select_repeated_with_completed(store) ==
    SelectSeq(store, LAMBDA r : r.is_daily \/ r.is_weekly \/ r.is_monthly \/ r.is_yearly)

\* the SELECT of process_repeated_tasks, in rowid order
select_repeated(store) ==
    SelectSeq(store, LAMBDA r : /\ ~r.completed
                                /\ (r.is_daily \/ r.is_weekly \/ r.is_monthly \/ r.is_yearly))

\* the loop of process_repeated_tasks over the rows fetched; add_task call
\* number fail_at raises (0: none does), which ends the sweep
RECURSIVE sweep_loop(_, _, _, _, _)
sweep_loop(selected, store, now_, fail_at, calls) ==
    IF selected = <<>> THEN [tasks |-> store, error |-> FALSE]
    ELSE LET task == row_to_task(Head(selected))
             new_due_date == calculate_next_due_date(task.due_date, task, now_)
             new_task == Task(task.title, task.text, FALSE, task.priority,
                              task.category_id, new_due_date,
                              [is_daily |-> task.is_daily, is_weekly |-> task.is_weekly,
                               is_monthly |-> task.is_monthly, is_yearly |-> task.is_yearly,
                               days_of_week |-> task.days_of_week], now_)
         IN  IF new_due_date = None
             THEN sweep_loop(Tail(selected), store, now_, fail_at, calls)
             ELSE IF calls + 1 = fail_at
             THEN [tasks |-> store, error |-> TRUE]
             ELSE sweep_loop(Tail(selected), add_task(store, new_task), now_,
                             fail_at, calls + 1)

\* a sweep that marks each task it spawned from as completed
process_repeated_tasks_completes_sources(store, now_, fail_at) ==
    LET r == sweep_loop(select_repeated(store), store, now_, fail_at, 0)
        done(row) == /\ row \in Range(select_repeated(store))
                     /\ calculate_next_due_date(row_to_task(row).due_date,
                                                row_to_task(row), now_) # None
    IN  [r EXCEPT !.tasks = [i \in 1..Len(r.tasks) |->
                                IF i <= Len(store) /\ done(r.tasks[i])
                                THEN [r.tasks[i] EXCEPT !.completed = TRUE]
                                ELSE r.tasks[i]]]

\* a sweep run as one transaction: a failing insert rolls every insert back
process_repeated_tasks_one_transaction(store, now_, fail_at) ==
    LET r == sweep_loop(select_repeated(store), store, now_, fail_at, 0)
    IN  IF r.error THEN [tasks |-> store, error |-> TRUE] ELSE r

\* a sweep that reads the cursor as it goes, and so also meets the rows it
\* has inserted itself (once more)
process_repeated_tasks_rescans(store, now_, fail_at) ==
    LET r == sweep_loop(select_repeated(store), store, now_, fail_at, 0)
        inserted == SubSeq(r.tasks, Len(store) + 1, Len(r.tasks))
    IN  IF r.error THEN r
        ELSE sweep_loop(select_repeated(inserted), r.tasks, now_, 0, 0)

\* TaskManager.process_repeated_tasks
process_repeated_tasks(store, now_, fail_at) ==
    sweep_loop(select_repeated(store), store, now_, fail_at, 0)

NoRecurrence ==
    [is_daily |-> FALSE, is_weekly |-> FALSE, is_monthly |-> FALSE,
     is_yearly |-> FALSE, days_of_week |-> <<>>]

\* the tasks callers add: the two of the module's example, and one of each
\* other kind, with and without a due date, pending and completed, and one
\* with two of the dataclass's flags set
TaskInputs(now_) ==
    { Task("Daily task example", "Example of a daily repeated task", FALSE, 3, None,
           None, [NoRecurrence EXCEPT !.is_daily = TRUE], now_),
      Task("Weekly task", "Weekly task for Monday and Wednesday", FALSE, 5, None,
           None, [NoRecurrence EXCEPT !.is_weekly = TRUE,
                                      !.days_of_week = <<"Monday", "Wednesday">>], now_),
      Task("Daily due", "d", FALSE, 1, Some(7), Some([day |-> 1, tod |-> 0]),
           [NoRecurrence EXCEPT !.is_daily = TRUE], now_),
      Task("Weekly no days", "w", FALSE, 2, None, None,
           [NoRecurrence EXCEPT !.is_weekly = TRUE], now_),
      Task("Monthly", "m", FALSE, 4, None, Some([day |-> 0, tod |-> 0]),
           [NoRecurrence EXCEPT !.is_monthly = TRUE], now_),
      Task("Yearly", "y", FALSE, 1, None, None,
           [NoRecurrence EXCEPT !.is_yearly = TRUE], now_),
      Task("Once", "o", FALSE, 1, None, Some([day |-> 1, tod |-> 0]), NoRecurrence, now_),
      Task("Done daily", "c", TRUE, 1, None, None,
           [NoRecurrence EXCEPT !.is_daily = TRUE], now_),
      Task("Daily and weekly", "dw", FALSE, 2, None, None,
           [NoRecurrence EXCEPT !.is_daily = TRUE, !.is_weekly = TRUE,
                                !.days_of_week = <<"Monday">>], now_) }

\* a caller adds a task
AddTask(task) ==
    /\ Len(tasks) < MaxAdds
    /\ tasks' = add_task(tasks, task)
    /\ base' = <<>>
    /\ sweeps' = 0
    /\ store_op' = [name |-> "add_task", fail_at |-> 0]
    /\ prev_tasks' = tasks
    /\ UNCHANGED now

\* a caller runs the sweep; the store may fail at one of its inserts
Sweep(fail_at) ==
    /\ sweeps < MaxSweeps
    /\ Len(tasks) + Len(select_repeated(tasks)) <= MaxTasks
    /\ fail_at <= Len(select_repeated(tasks))
    /\ LET r == process_repeated_tasks(tasks, now, fail_at)
       IN  /\ tasks' = r.tasks
           /\ IF r.error
              THEN base' = <<>> /\ sweeps' = 0
              ELSE /\ base' = IF sweeps = 0 THEN tasks ELSE base
                   /\ sweeps' = sweeps + 1
           /\ store_op' = [name |-> IF r.error THEN "sweep_error" ELSE "sweep",
                           fail_at |-> fail_at]
    /\ prev_tasks' = tasks
    /\ UNCHANGED now

\* time passes
ClockAdvance(t) ==
    /\ Later(t, now)
    /\ t.day <= MaxClockDay
    /\ now' = t
    /\ store_op' = [name |-> "clock", fail_at |-> 0]
    /\ prev_tasks' = tasks
    /\ UNCHANGED <<tasks, base, sweeps>>

(***************************************************************************)
(* TaskCreatorWidget (widgets/todo_screen.py)                              *)
(***************************************************************************)
\* what is typed in the form: a complete form with each interval, and forms
\* that miss the title or the description, or carry a priority that is out of
\* range or no number, or a due date, well-formed or not. The priority is a
\* text (character sequence); interval is the index selected in
\* INTERVAL_OPTIONS. The form has no input for the days of the week.
Form(title, description, priority, due_date, interval) ==
    [title |-> title, description |-> description, priority |-> priority,
     due_date |-> due_date, interval |-> interval]

CreateTaskInputs ==
    { Form("Task", "text", <<"3">>, "", i) : i \in 0..4 }
    \cup { Form("", "text", <<"3">>, "", 1),
           Form("Task", "", <<"3">>, "", 1),
           Form("Task", "text", <<"0">>, "", 1),
           Form("Task", "text", <<"x">>, "", 1),
           Form("Task", "text", <<"3">>, "soon", 1),
           Form("Task", "text", <<"3">>, "2024-05-07", 1) }

\* datetime.strptime(text, "%Y-%m-%d") succeeds on the due date text
due_date_parses(text) == text = "2024-05-07"

\* interval_options.get(interval_index, {}) over the Task defaults
interval_settings(interval_index) ==
    [NoRecurrence EXCEPT !.is_daily = (interval_index = 1),
                         !.is_weekly = (interval_index = 2),
                         !.is_monthly = (interval_index = 3),
                         !.is_yearly = (interval_index = 4)]

\* TaskCreatorWidget.create_task: the store afterwards. The validations return
\* early; a task with a due date carries it as the text typed, on which
\* add_task's due_date.strftime raises AttributeError, caught at line 125.
create_task(store, in, now_) ==
    LET priority == int(in.priority)
    IN  IF in.title = "" THEN store
        ELSE IF in.description = "" THEN store
        ELSE IF priority = None \/ priority[1] < 1 \/ priority[1] > 5 THEN store
        ELSE IF in.due_date # "" /\ ~due_date_parses(in.due_date) THEN store
        ELSE IF in.due_date # "" THEN store
        ELSE add_task(store, Task(in.title, in.description, FALSE, priority[1], None,
                                  None, interval_settings(in.interval), now_))

\* the Create Task button
CreateTask(in) ==
    /\ Len(tasks) < MaxAdds
    /\ tasks' = create_task(tasks, in, now)
    /\ base' = <<>>
    /\ sweeps' = 0
    /\ store_op' = [name |-> IF tasks' # tasks THEN "create_task" ELSE "create_task_refused",
                    fail_at |-> 0]
    /\ prev_tasks' = tasks
    /\ UNCHANGED now

(***************************************************************************)
(* Specification of _calculate_next_due_date on bounded inputs             *)
(***************************************************************************)
\* the day lists tried: empty, one day, the two days of the example, a day
\* late in the week, every day, and a name that is no weekday
DayLists ==
    { <<>>, <<"Monday">>, <<"Monday", "Wednesday">>, <<"Sunday">>,
      <<"Saturday", "Tuesday">>, WeekdayNames, <<"Funday">>, <<"Funday", "Friday">> }

\* the recurrence fields of a Task (taskmanager.py lines 19-23)
Recurrences ==
    [is_daily : BOOLEAN, is_weekly : BOOLEAN, is_monthly : BOOLEAN,
     is_yearly : BOOLEAN, days_of_week : DayLists]

DueCalls ==
    [due_date : {None} \cup {Some(d) : d \in DateTimes},
     task : Recurrences,
     now : DateTimes]

DueInit == call \in {Some(c) : c \in DueCalls} /\ ret = None

\* one call of _calculate_next_due_date
Calculate ==
    /\ ret = None
    /\ ret' = Some(calculate_next_due_date(call[1].due_date, call[1].task, call[1].now))
    /\ UNCHANGED call

(***************************************************************************)
(* Specification of the timer                                              *)
(***************************************************************************)
TimerInit ==
    /\ work_duration \in ConfigDurations
    /\ break_duration \in ConfigDurations
    /\ is_work_phase = TRUE
    /\ td = update_timer_for_current_phase(TimeDisplayInit, is_work_phase,
                                           work_duration, break_duration)
    /\ pc = "idle"
    /\ last_op = "mount"
    /\ pre = TimeDisplayInit
    /\ run_d = 0
    /\ run_ticks = 0
    /\ signals = 0

StoreOff ==
    /\ tasks = <<>>
    /\ now = [day |-> 0, tod |-> 0]
    /\ base = <<>>
    /\ sweeps = 0
    /\ store_op = [name |-> "none", fail_at |-> 0]
    /\ prev_tasks = <<>>
DueOff   == call = None /\ ret = None

Init == TimerInit /\ StoreOff /\ DueOff

Next ==
    \/ \E d \in DurationArgs : TdStartDuration(d) /\ UNCHANGED <<storeVars, dueVars>>
    \/ TdStop /\ UNCHANGED <<storeVars, dueVars>>
    \/ TdReset /\ UNCHANGED <<storeVars, dueVars>>
    \/ PressStartStop /\ UNCHANGED <<storeVars, dueVars>>
    \/ PressReset /\ UNCHANGED <<storeVars, dueVars>>
    \/ PressTogglePhase /\ UNCHANGED <<storeVars, dueVars>>
    \/ \E ok \in BOOLEAN : Tick(ok) /\ UNCHANGED <<storeVars, dueVars>>
    \/ AudioDone /\ UNCHANGED <<storeVars, dueVars>>
    \/ \E w, b \in DurationArgs : action_set_durations(w, b) /\ UNCHANGED <<storeVars, dueVars>>
    \/ \E wi, bi \in SettingsInputs : SaveSettings(wi, bi) /\ UNCHANGED <<storeVars, dueVars>>

Spec == Init /\ [][Next]_vars

(***************************************************************************)
(* Specifications of the store and of the due date computation             *)
(***************************************************************************)
TimerOff ==
    /\ td = TimeDisplayInit
    /\ is_work_phase = TRUE
    /\ work_duration = 1
    /\ break_duration = 1
    /\ pc = "idle"
    /\ last_op = "off"
    /\ pre = TimeDisplayInit
    /\ run_d = 0
    /\ run_ticks = 0
    /\ signals = 0

StoreInit ==
    /\ tasks = <<>>
    /\ now \in {t \in DateTimes : t.day = 0}
    /\ base = <<>>
    /\ sweeps = 0
    /\ store_op = [name |-> "none", fail_at |-> 0]
    /\ prev_tasks = <<>>

InitStore == TimerOff /\ StoreInit /\ DueOff

NextStore ==
    \/ \E task \in TaskInputs(now) : AddTask(task) /\ UNCHANGED <<timerVars, dueVars>>
    \/ \E fail_at \in 0..MaxTasks : Sweep(fail_at) /\ UNCHANGED <<timerVars, dueVars>>
    \/ \E t \in DateTimes : ClockAdvance(t) /\ UNCHANGED <<timerVars, dueVars>>

SpecStore == InitStore /\ [][NextStore]_vars

\* the store behind the task form: tasks enter through TaskCreatorWidget
InitForm == TimerOff /\ StoreInit /\ DueOff

NextForm ==
    \/ \E in \in CreateTaskInputs : CreateTask(in) /\ UNCHANGED <<timerVars, dueVars>>
    \/ \E fail_at \in 0..MaxTasks : Sweep(fail_at) /\ UNCHANGED <<timerVars, dueVars>>
    \/ \E t \in DateTimes : ClockAdvance(t) /\ UNCHANGED <<timerVars, dueVars>>

SpecForm == InitForm /\ [][NextForm]_vars

InitDue == TimerOff /\ StoreOff /\ DueInit

NextDue == Calculate /\ UNCHANGED <<timerVars, storeVars>>

SpecDue == InitDue /\ [][NextDue]_vars

(***************************************************************************)
(* Properties of the timer and phase controller (checked under Spec)       *)
(***************************************************************************)
\* the configured duration of a phase
DurationFor(work, wd, bd) == IF work THEN wd ELSE bd

\* C1: for every d > 0, after start(d) followed by exactly d ticks and nothing
\* else, exactly one time-up callback has been made and remaining_time is 0.
C1_CompletedAfterDTicks ==
    (run_d > 0 /\ run_ticks = run_d) => (signals = 1 /\ td.remaining_time = 0)

\* C2: one countdown to zero makes a single time-up callback: at most one
\* callback is made between two start/reset operations, and once it has been
\* made the countdown is not running and its interval is paused, so that no
\* tick is delivered until the next start.
C2_SingleCompleted ==
    /\ signals <= 1
    /\ signals = 1 => (~td.timer_active /\ td.update_timer = "paused")

\* the countdown ran to zero, called back once and the phase was switched
C2_Witness ==
    signals = 1 /\ last_op = "phase_switched" /\ pre.remaining_time = 0

\* C3: every step that flips the phase, by completion or by the toggle button
\* at any time, leaves the countdown stopped (never started) with duration and
\* remaining_time both equal to the configured duration of the new phase.
C3_PhaseFlipResets ==
    [][is_work_phase' # is_work_phase =>
          /\ ~td'.timer_active
          /\ td'.update_timer = "paused"
          /\ td'.duration = DurationFor(is_work_phase', work_duration', break_duration')
          /\ td'.remaining_time = td'.duration]_vars

\* the phase was toggled by the button in the middle of a running countdown
C3_Witness ==
    /\ last_op = "toggle_phase"
    /\ pre.timer_active
    /\ 0 < pre.remaining_time
    /\ pre.remaining_time < pre.duration

\* C4: a completion (of a countdown loaded with a positive duration) whose
\* alert fails to play still flips the phase and resets the countdown to the
\* duration of the new phase.
C4_AudioFailureKeepsTransition ==
    [][(last_op' = "time_up_audio_error" /\ td.duration > 0) =>
          /\ is_work_phase' # is_work_phase
          /\ td'.duration = DurationFor(is_work_phase', work_duration', break_duration')
          /\ td'.remaining_time = td'.duration]_vars

\* C6: stop clears timer_active and leaves remaining_time as it was; while the
\* countdown is not active no tick changes remaining_time; start without a
\* duration activates the countdown from the same remaining_time.
C6_StopFreezesRemaining ==
    [][/\ last_op' = "stop" =>
             (~td'.timer_active /\ td'.remaining_time = td.remaining_time)
       /\ (~td.timer_active /\ last_op' \in {"tick", "time_up", "time_up_audio_error"}) =>
             td'.remaining_time = td.remaining_time
       /\ last_op' = "start" =>
             (td'.timer_active /\ td'.remaining_time = td.remaining_time)]_vars

\* a countdown paused midway was resumed by start without a duration
C6_Witness ==
    /\ last_op = "start"
    /\ pre.paused
    /\ ~pre.timer_active
    /\ 0 < td.remaining_time
    /\ td.remaining_time < td.duration

\* C7: after reset, from any state, remaining_time = duration and the
\* countdown is not running.
C7_ResetRestores ==
    last_op \in {"reset", "reset_button"} =>
        /\ td.remaining_time = td.duration
        /\ ~td.timer_active
        /\ td.update_timer = "paused"

\* reset was called in the middle of a running countdown
C7_Witness ==
    /\ last_op = "reset"
    /\ pre.timer_active
    /\ 0 < pre.remaining_time
    /\ pre.remaining_time < pre.duration

\* C8: in every reachable state 0 <= remaining_time <= duration.
C8_RemainingWithinDuration ==
    0 <= td.remaining_time /\ td.remaining_time <= td.duration

(***************************************************************************)
(* Properties of the sweep (checked under SpecStore)                       *)
(***************************************************************************)
\* the sweeps counted so far began on a store that held one pending Daily task
OnePendingDailyAtStart ==
    /\ Len(base) = 1
    /\ ~base[1].completed
    /\ base[1].is_daily

\* C5 as stated: two sweeps in a row over a store that began with one pending
\* Daily task leave exactly two follow-up records in total.
C5_TwoSweepsTwoFollowUps ==
    (sweeps = 2 /\ OnePendingDailyAtStart) => Len(tasks) - Len(base) = 2

\* C5 as amended: the first sweep leaves one follow-up record and the second
\* adds two more (one for the source, one for the first follow-up, itself a
\* pending Daily task): three follow-up records in total, all of them copies
\* of the source.
C5_TwoSweepsThreeFollowUps ==
    OnePendingDailyAtStart =>
        /\ sweeps = 1 => Len(tasks) - Len(base) = 1
        /\ sweeps = 2 => Len(tasks) - Len(base) = 3
        /\ \A i \in 2..Len(tasks) :
              /\ tasks[i].title = base[1].title
              /\ tasks[i].is_daily
              /\ ~tasks[i].completed

\* two sweeps have run in a row over a store that began with one pending Daily task
C5_Witness ==
    sweeps = 2 /\ OnePendingDailyAtStart /\ Len(tasks) = 4

(***************************************************************************)
(* Properties of the due date computation (checked under SpecDue)          *)
(***************************************************************************)
\* the recurrence kind of a task with at most one flag set
OnlyFlags(t, daily, weekly, monthly, yearly) ==
    /\ t.is_daily = daily
    /\ t.is_weekly = weekly
    /\ t.is_monthly = monthly
    /\ t.is_yearly = yearly

MinOf(S) == CHOOSE x \in S : \A y \in S : x <= y

\* C9: with no recurrence nothing is returned; Daily returns from + 1 day,
\* Monthly from + 30 days, Yearly from + 365 days, where from is the due date
\* given when there is one and now otherwise.
C9_NonWeeklyRule ==
    ret # None =>
        LET c == call[1]
            from == IF c.due_date # None THEN c.due_date[1] ELSE c.now
            plus(n) == Some([day |-> from.day + n, tod |-> from.tod])
        IN  /\ OnlyFlags(c.task, FALSE, FALSE, FALSE, FALSE) => ret[1] = None
            /\ OnlyFlags(c.task, TRUE, FALSE, FALSE, FALSE) => ret[1] = plus(1)
            /\ OnlyFlags(c.task, FALSE, FALSE, TRUE, FALSE) => ret[1] = plus(30)
            /\ OnlyFlags(c.task, FALSE, FALSE, FALSE, TRUE) => ret[1] = plus(365)

\* a Monthly task due on day 1 was given day 31, whatever the clock said
C9_Witness ==
    /\ ret # None
    /\ OnlyFlags(call[1].task, FALSE, FALSE, TRUE, FALSE)
    /\ call[1].due_date = Some([day |-> 1, tod |-> 0])
    /\ call[1].now.day = 5
    /\ ret[1] = Some([day |-> 31, tod |-> 0])

\* C10: for Weekly with a non-empty day list the result is the first of
\* anchor, anchor+1, ..., anchor+6 whose weekday name is in the list, where
\* anchor is the due date given if there is one and it is later than now, and
\* now otherwise; when every name of the list is a weekday name a date is
\* always returned.
C10_WeeklyRule ==
    (ret # None /\ call[1].task.is_weekly /\ ~call[1].task.is_daily
                /\ call[1].task.days_of_week # <<>>) =>
        LET c == call[1]
            days == Range(c.task.days_of_week)
            anchor == IF c.due_date # None /\ Later(c.due_date[1], c.now)
                      THEN c.due_date[1] ELSE c.now
            hits == {i \in 0..6 : strftime_A([day |-> anchor.day + i, tod |-> 0]) \in days}
        IN  /\ ret[1] = IF hits = {} THEN None
                        ELSE Some([day |-> anchor.day + MinOf(hits), tod |-> anchor.tod])
            /\ days \subseteq Range(WeekdayNames) => ret[1] # None

\* a Monday/Wednesday task due on Saturday (day 5), asked on Wednesday (day 2),
\* was given the Monday after its due date (day 7)
C10_Witness ==
    /\ ret # None
    /\ OnlyFlags(call[1].task, FALSE, TRUE, FALSE, FALSE)
    /\ call[1].task.days_of_week = <<"Monday", "Wednesday">>
    /\ call[1].due_date = Some([day |-> 5, tod |-> 0])
    /\ call[1].now.day = 2
    /\ ret[1] = Some([day |-> 7, tod |-> 0])

(***************************************************************************)
(* The sweep: follow-ups, frame, selection, failure                        *)
(***************************************************************************)
SweepRan == store_op.name \in {"sweep", "sweep_error"}

\* the rows the last operation inserted
NewRows == SubSeq(tasks, Len(prev_tasks) + 1, Len(tasks))

Recurring(row) == row.is_daily \/ row.is_weekly \/ row.is_monthly \/ row.is_yearly

\* the next due date of a stored row at the time of the sweep (None: none)
NextDueOf(row) ==
    calculate_next_due_date(row_to_task(row).due_date, row_to_task(row), now)

\* the tasks a sweep over the store owes a follow-up, in rowid order
FollowUpSources(store) ==
    SelectSeq(store, LAMBDA r : ~r.completed /\ Recurring(r) /\ NextDueOf(r) # None)

\* C11: every follow-up a sweep inserts has the title, text, priority,
\* recurrence flags, weekday set and category of its source task, is not
\* completed, is due on the date computed for the source, and has an id
\* different from every other record of the store
C11_FollowUpCopiesSource ==
    SweepRan =>
        \A j \in 1..Len(NewRows) :
            LET new == NewRows[j]
                src == FollowUpSources(prev_tasks)[j]
            IN  /\ new.title = src.title
                /\ new.text = src.text
                /\ new.priority = src.priority
                /\ new.is_daily = src.is_daily
                /\ new.is_weekly = src.is_weekly
                /\ new.is_monthly = src.is_monthly
                /\ new.is_yearly = src.is_yearly
                /\ new.days_of_week = src.days_of_week
                /\ new.category_id = src.category_id
                /\ ~new.completed
                /\ new.due_date = Some(strftime_date(NextDueOf(src)[1]))
                /\ new.id # src.id
                /\ \A i \in 1..Len(tasks) : i # Len(prev_tasks) + j => tasks[i].id # new.id

\* a sweep spawned a follow-up from a task with a category and a due date,
\* and another from a weekly task with its days
C11_Witness ==
    /\ store_op.name = "sweep"
    /\ Len(NewRows) = 2
    /\ NewRows[1].category_id = Some(7)
    /\ prev_tasks[1].due_date # None
    /\ NewRows[2].is_weekly
    /\ NewRows[2].days_of_week = Some(<<"Monday", "Wednesday">>)

\* C12: a sweep leaves every record that was in the store before it
\* unchanged; it only appends records
C12_SweepOnlyInserts ==
    SweepRan =>
        /\ Len(tasks) >= Len(prev_tasks)
        /\ SubSeq(tasks, 1, Len(prev_tasks)) = prev_tasks

\* a sweep spawned a follow-up from a pending task that has a due date
C12_Witness ==
    /\ store_op.name = "sweep"
    /\ Len(NewRows) >= 1
    /\ \E i \in 1..Len(prev_tasks) :
          /\ ~prev_tasks[i].completed
          /\ prev_tasks[i].due_date # None
          /\ Recurring(prev_tasks[i])

\* C13: a sweep that runs to its end inserts one follow-up for each task that
\* was pending, recurring and had a computable next due date when it started,
\* in that order, and none for any other task
C13_OneFollowUpPerPendingRecurring ==
    store_op.name = "sweep" =>
        /\ Len(NewRows) = Cardinality({ i \in 1..Len(prev_tasks) :
                                          /\ ~prev_tasks[i].completed
                                          /\ Recurring(prev_tasks[i])
                                          /\ NextDueOf(prev_tasks[i]) # None })
        /\ Len(NewRows) = Len(FollowUpSources(prev_tasks))
        /\ \A j \in 1..Len(NewRows) : NewRows[j].title = FollowUpSources(prev_tasks)[j].title

\* a sweep ran over a completed recurring task and a pending one, or over a
\* weekly task without days and a pending one, and spawned from the pending one
C13_Witness ==
    /\ store_op.name = "sweep"
    /\ Len(prev_tasks) = 2
    /\ Len(NewRows) = 1
    /\ \E i \in 1..2 : Recurring(prev_tasks[i]) /\ prev_tasks[i].completed

\* C14: when the store fails at the insert of the k-th follow-up of a sweep,
\* the caller gets the error, the store keeps the records it had and the k-1
\* follow-ups inserted before, and holds no follow-up for the k-th or a later
\* task
C14_FailureKeepsEarlierFollowUps ==
    (SweepRan /\ store_op.fail_at \in 1..Len(FollowUpSources(prev_tasks))) =>
        /\ store_op.name = "sweep_error"
        /\ SubSeq(tasks, 1, Len(prev_tasks)) = prev_tasks
        /\ Len(NewRows) = store_op.fail_at - 1
        /\ \A j \in 1..Len(NewRows) : NewRows[j].title = FollowUpSources(prev_tasks)[j].title

\* the store failed at the second insert of a sweep and kept the first
C14_Witness ==
    /\ store_op.name = "sweep_error"
    /\ store_op.fail_at = 2
    /\ Len(NewRows) = 1

\* C15: a task created as Weekly through the task form has a non-empty
\* weekday set
C15_WeeklyHasDays ==
    store_op.name = "create_task" =>
        (tasks[Len(tasks)].is_weekly => tasks[Len(tasks)].days_of_week # None)

(***************************************************************************)
(* Configured durations, the alert, start(duration), the initial state     *)
(***************************************************************************)
SetDurationsOps == {"set_durations", "save_settings"}

\* C16 as stated: setting the configured durations leaves the countdown as
\* it is, and a reset of the current phase right after it restores the
\* duration the countdown was loaded with (checked for positive durations)
C16_ResetAfterSetDurationsKeepsDuration ==
    [][ /\ (last_op' \in SetDurationsOps => td' = td)
        /\ ((/\ last_op \in SetDurationsOps
             /\ work_duration > 0 /\ break_duration > 0 /\ td.duration > 0
             /\ last_op' \in {"reset", "reset_button"})
               => td'.duration = td.duration) ]_vars

\* C16: setting the configured durations leaves the countdown as it is;
\* TimeDisplay.reset after it restores the duration the countdown was loaded
\* with, while the reset button, a manual toggle and a completed phase load
\* the timer with the duration configured now for the phase they leave it in
C16_SetDurationsAppliedOnReload ==
    [][ /\ (last_op' \in SetDurationsOps => td' = td)
        /\ (last_op \in SetDurationsOps /\ last_op' = "reset"
               => td'.duration = td.duration /\ td'.remaining_time = td.duration)
        /\ (last_op' \in {"reset_button", "toggle_phase", "phase_switched"}
               => /\ td'.duration = DurationFor(is_work_phase', work_duration',
                                                break_duration')
                  /\ td'.remaining_time = td'.duration
                  /\ ~td'.timer_active) ]_vars

\* the durations were set in the middle of a running countdown, to values
\* other than the one it was loaded with
C16_Witness ==
    /\ last_op = "set_durations"
    /\ td.timer_active
    /\ 0 < td.remaining_time
    /\ td.remaining_time < td.duration
    /\ td.duration # DurationFor(is_work_phase, work_duration, break_duration)

\* C17: the phase flip and the timer reset do not wait for the alert: when
\* the alert of a completed countdown is playing, they have been done
C17_FlipDoesNotWaitForAudio ==
    (pc = "playing" /\ td.duration > 0) =>
        /\ last_op = "phase_switched"
        /\ td.remaining_time = td.duration

\* C18: start(duration) with a duration that is not positive leaves the
\* timer as it was
C18_StartRejectsNonPositive ==
    (last_op = "start_d" /\ td.duration <= 0) => td = pre

\* C19: a session starts in the Work phase with the timer loaded with the
\* work duration and not running
C19_InitialState ==
    last_op = "mount" =>
        /\ is_work_phase
        /\ td.duration = work_duration
        /\ td.remaining_time = td.duration
        /\ ~td.timer_active
        /\ td.update_timer = "paused"

\* a session that starts with different work and break durations
C19_Witness ==
    /\ last_op = "mount"
    /\ is_work_phase
    /\ work_duration # break_duration
    /\ td.duration = work_duration

\* C20: the configured durations are positive in every reachable state
C20_DurationsPositive ==
    work_duration > 0 /\ break_duration > 0

(***************************************************************************)
(* Recurrence flags, the timer's flags, due dates, the extent of a sweep   *)
(***************************************************************************)
\* the number of recurrence flags set in a row
FlagCount(row) ==
    Cardinality({ k \in {"is_daily", "is_weekly", "is_monthly", "is_yearly"} : row[k] })

\* C21: no task in the store has two recurrence flags set at once
C21_AtMostOneRecurrenceKind ==
    \A i \in 1..Len(tasks) : FlagCount(tasks[i]) <= 1

\* C22: while 0 < remaining_time < duration exactly one of timer_active and
\* paused is true, and the two are never true together
C22_PausedNegatesRunning ==
    /\ (0 < td.remaining_time /\ td.remaining_time < td.duration)
           => (td.paused = ~td.timer_active)
    /\ ~(td.timer_active /\ td.paused)

\* a countdown stopped part-way and resumed: running again, not paused
C22_Witness ==
    /\ last_op = "start"
    /\ pre.paused
    /\ ~pre.timer_active
    /\ td.timer_active
    /\ 0 < td.remaining_time
    /\ td.remaining_time < td.duration

\* a call with a previous due date that returned a next due date
DueComputed == ret # None /\ ret[1] # None /\ call[1].due_date # None

\* the branch of _calculate_next_due_date the task goes through
WeeklyBranch(t) == ~t.is_daily /\ t.is_weekly

\* C23 as stated: the next due date computed for a recurring task with a
\* previous due date is on a later date than the previous due date
C23_NextDueStrictlyLater ==
    DueComputed => ret[1][1].day > call[1].due_date[1].day

\* C23: the next due date computed for a recurring task with a previous due
\* date is never earlier than the previous due date; it is on a later date
\* for Daily, Monthly and Yearly, and for Weekly it is the previous due date
\* itself when that date is later than now and falls on one of the task's days
C23_NextDueNotEarlier ==
    DueComputed =>
        LET c == call[1]
            due == c.due_date[1]
            next == ret[1][1]
        IN  /\ next.day >= due.day
            /\ ~WeeklyBranch(c.task) => next.day > due.day
            /\ (/\ WeeklyBranch(c.task)
                /\ Later(due, c.now)
                /\ strftime_A(due) \in Range(c.task.days_of_week)) => next = due

\* a Monday/Wednesday task due on the Wednesday after now was given that
\* same Wednesday again
C23_Witness ==
    /\ DueComputed
    /\ OnlyFlags(call[1].task, FALSE, TRUE, FALSE, FALSE)
    /\ call[1].task.days_of_week = <<"Monday", "Wednesday">>
    /\ call[1].due_date = Some([day |-> 2, tod |-> 0])
    /\ call[1].now.day = 1
    /\ ret[1] = call[1].due_date

\* the rows the filter of the sweep matches
MatchesFilter(row) == ~row.completed /\ Recurring(row)

\* C24: a sweep ends after at most one insert for each row that matched its
\* filter when it started: the rows it inserts match the filter too, but are
\* not processed in the same sweep
C24_SweepBoundedByRowsAtStart ==
    SweepRan =>
        /\ Len(NewRows) <= Cardinality({ i \in 1..Len(prev_tasks) :
                                           MatchesFilter(prev_tasks[i]) })
        /\ \A j \in 1..Len(NewRows) :
              /\ MatchesFilter(NewRows[j])
              /\ NewRows[j].due_date
                    = Some(strftime_date(NextDueOf(FollowUpSources(prev_tasks)[j])[1]))

\* a sweep inserted a follow-up for each of two rows; both follow-ups match
\* the filter and neither got a follow-up of its own
C24_Witness ==
    /\ store_op.name = "sweep"
    /\ Len(prev_tasks) = 2
    /\ Len(NewRows) = 2
    /\ \A j \in 1..2 : MatchesFilter(NewRows[j])

====
